---- MODULE Spec2Model ----
(***************************************************************************)
(* Strategy engine of WB-Repricer: the runner (run_strategy,               *)
(* run_all_active_strategies), the strategy CRUD endpoints, the            *)
(* out-of-stock handler and the margin calculator.                         *)
(*                                                                         *)
(* Units.  Money is an integer number of kopecks (Numeric(12, 2)).         *)
(* Percentages of products and accounts are whole percents; the           *)
(* percentages of a strategy configuration (float fields of                *)
(* OutOfStockConfig) are in hundredths of a percent.  The Python None of a *)
(* nullable numeric column is the sentinel None (-1); the columns          *)
(* concerned never hold a negative number.                                 *)
(*                                                                         *)
(* Time.  datetime.now() is the number of run_strategy calls begun so far  *)
(* (ncalls): executed_at of an execution is its call number, created_at of *)
(* a price_history row the number of the last call begun before its        *)
(* INSERT, so created_at >= executed_at compares as in real time.          *)
(*                                                                         *)
(* Sessions.  Every caller of run_strategy owns one AsyncSession.  Rows    *)
(* that were flushed are visible to that session only, until commit()      *)
(* makes them durable; closing the session without commit discards them.   *)
(* A flush that the database rejects rolls back everything the session     *)
(* flushed since its last commit and leaves the session unusable until     *)
(* rollback() is called, which this code never does: every later           *)
(* statement on it, commit() included, raises.                             *)
(*                                                                         *)
(* Callers.  The run endpoint and the scheduled batch have a session each  *)
(* and meet only in committed rows.  Under Spec their runs are taken one   *)
(* after the other, and the edits of strategies and assignments, requests  *)
(* of their own, fall between any two steps of a run; under SpecOverlap    *)
(* the runs of the two callers interleave on strategies that are in place. *)
(* SpecMargin and SpecHandler call the margin calculator and the handler   *)
(* on arguments drawn from sets of inputs.                                 *)
(***************************************************************************)
EXTENDS Integers, Sequences, FiniteSets, TLC

\* ---------------------------------------------------------------- bounds
MaxStrategies == 2   \* strategies ever created
MaxLinks == 2        \* product_strategies rows ever created
MaxCalls == 2        \* invocations of run_strategy
MaxCrud == 3         \* accepted strategy / assignment edits

None == -1

\* ------------------------------------------------------- program constants
STRATEGY_TYPES ==
    {"sales_velocity", "out_of_stock", "promotion_booster", "competitor_following",
     "target_margin", "price_range", "demand_reaction", "scheduled", "locomotive",
     "ab_test"}

\* the registry after import of app.services.strategies: one decorated handler
_registry == {"out_of_stock"}

ConfigKeys ==
    {"threshold_days", "critical_days", "price_increase_pct", "critical_increase_pct",
     "max_price_increase_pct", "min_margin_pct", "exclude_zero_stock"}

\* JSON values of a stored config: a number, a boolean, a string, or no entry
JNum(n) == [t |-> "num", v |-> n]
JBool(b) == [t |-> "bool", v |-> IF b THEN 1 ELSE 0]
JStr == [t |-> "str", v |-> 0]
JAbsent == [t |-> "absent", v |-> 0]

\* days are whole days, percentages hundredths of a percent
DEFAULT_CONFIG ==
    [threshold_days |-> JNum(7), critical_days |-> JNum(3),
     price_increase_pct |-> JNum(1500), critical_increase_pct |-> JNum(3000),
     max_price_increase_pct |-> JNum(5000), min_margin_pct |-> JNum(500),
     exclude_zero_stock |-> JBool(TRUE)]

\* ------------------------------------------------------------ input sets
Products == 1 .. 3
\* ids a caller may name: the ids that can exist and one that never does
StrategyIdInputs == 1 .. (MaxStrategies + 1)
TypeInputs == {"out_of_stock", "sales_velocity", "bogus"}
PriorityInputs == {1, 2}

EmptyConfig == [k \in ConfigKeys |-> JAbsent]
\* {"threshold_days": "7"}: accepted by StrategyCreate (config_json: dict)
BadConfig == [EmptyConfig EXCEPT !["threshold_days"] = JStr]
ConfigInputs == {EmptyConfig, BadConfig}

\* ------------------------------------------------- collected data (fixed)
\* products, latest price snapshot, 7-day net orders, account fee rates:
\* product 1 sells out in 2 days; product 2 in 5 days and costs 50 times its
\* price; product 3 in 5 days and has no cost price
ProductTable ==
    [p \in Products |->
       CASE p = 1 -> [account_id |-> 1, total_stock |-> 20, cost_price |-> 40000,
                      commission_pct |-> 15, logistics_cost |-> 5000,
                      storage_cost |-> 2000, ad_pct |-> 5, spp_pct |-> 10,
                      extra_costs_total |-> 0]
         [] p = 2 -> [account_id |-> 1, total_stock |-> 50, cost_price |-> 50000,
                      commission_pct |-> 15, logistics_cost |-> None,
                      storage_cost |-> None, ad_pct |-> None, spp_pct |-> None,
                      extra_costs_total |-> 0]
         [] OTHER -> [account_id |-> 1, total_stock |-> 50, cost_price |-> None,
                      commission_pct |-> None, logistics_cost |-> None,
                      storage_cost |-> None, ad_pct |-> None, spp_pct |-> None,
                      extra_costs_total |-> 0]]

\* final_price of the latest PriceSnapshot of each product
SnapshotTable == [p \in Products |-> CASE p = 1 -> 100000 [] p = 2 -> 1000 [] OTHER -> 50000]

\* sum(orders_count) - sum(returns_count) over the 7 days before today
OrdersTable == [p \in Products |-> [orders |-> 75, returns |-> 5]]

AccountTable == [a \in {1} |-> [tax_rate |-> 6, tariff_rate |-> 0]]

\* ------------------------------------------------------------------ state
VARIABLES
    strategies,     \* table strategies: row id |-> row, ids 1 .. Len
    links,          \* table product_strategies: row id |-> row
    executions,     \* committed rows of strategy_executions
    price_history,  \* committed rows of price_history
    sess,           \* per caller: the rows its session flushed and did not commit
    run,            \* per caller: the position and locals of its run_strategy call
    batch,          \* locals of run_all_active_strategies
    last_result,    \* what the last finished run_all_active_strategies gave back
    last_call,      \* the current or last call of the run endpoint (observation)
    ncalls,         \* invocations of run_strategy so far
    ph_seq,         \* last value of the id sequence of price_history
    crud,           \* number of accepted edits (bounds the exploration)
    probe           \* a call of the margin calculator or of the handler on
                    \* data of its own: its arguments and what it returned

\* ------------------------------------------------------------ arithmetic
Abs(x) == IF x < 0 THEN -x ELSE x

Min(a, b) == IF a < b THEN a ELSE b

Max(a, b) == IF a > b THEN a ELSE b

\* round(n / d) to the nearest integer, ties to even (Python round), d > 0
RoundDiv(n, d) ==
    LET q == n \div d
        r == n % d
    IN  IF 2 * r < d THEN q
        ELSE IF 2 * r > d THEN q + 1
        ELSE IF q % 2 = 0 THEN q ELSE q + 1

\* (x or 0) of a nullable number
OrZero(x) == IF x = None THEN 0 ELSE x

\* an optional signed number (a margin may be negative, so None cannot mark it)
Some(x) == [some |-> TRUE, v |-> x]
Nothing == [some |-> FALSE, v |-> 0]

\* the test without the cost price
MarginUndefined_PriceOnly(price, cost_price) ==
    price = None \/ price = 0 \/ price <= 0

\* if not price or not cost_price or price <= 0
MarginUndefined(price, cost_price) ==
    price = None \/ price = 0 \/ cost_price = None \/ cost_price = 0 \/ price <= 0

\* calculate_promo_margin: (margin_pct in tenths of a percent, margin_rub in
\* kopecks), or (None, None).  Amounts are carried in 1/10000 kopeck.
calculate_promo_margin(product, price, account_tax, account_tariff) ==
    LET cost_price == product.cost_price
    IN  IF MarginUndefined(price, cost_price)
        THEN [pct |-> Nothing, rub |-> Nothing]
        ELSE
        LET spp_pct == product.spp_pct
            \* spp_price in 1/100 kopeck
            spp_price == IF spp_pct # None /\ spp_pct # 0
                         THEN price * (100 - spp_pct) ELSE price * 100
            tax_amount == IF account_tax # 0 THEN spp_price * account_tax ELSE 0
            commission_amount == IF OrZero(product.commission_pct) # 0
                                 THEN price * product.commission_pct * 100 ELSE 0
            tariff_amount == IF account_tariff # 0 THEN price * account_tariff * 100 ELSE 0
            ad_amount == IF OrZero(product.ad_pct) # 0 THEN price * product.ad_pct * 100 ELSE 0
            total_costs == cost_price * 10000 + tax_amount + commission_amount
                           + tariff_amount + OrZero(product.logistics_cost) * 10000
                           + OrZero(product.storage_cost) * 10000 + ad_amount
                           + product.extra_costs_total * 10000
            margin_rub == RoundDiv(price * 10000 - total_costs, 10000)
            margin_pct == RoundDiv(margin_rub * 1000, price)
        IN  [pct |-> Some(margin_pct), rub |-> Some(margin_rub)]

\* The margin computed by _enrich_with_prices for a product, its latest
\* final_price and the rates of its account, in the units of
\* calculate_promo_margin.
_enrich_with_prices(p, final_price, acc_tax, acc_tariff) ==
    LET cost_price == p.cost_price
    IN  IF ~(/\ final_price # None /\ final_price # 0
             /\ cost_price # None /\ cost_price # 0
             /\ final_price > 0)
        THEN [pct |-> Nothing, rub |-> Nothing]
        ELSE
        LET tax_amount == IF acc_tax # 0 THEN final_price * acc_tax * 100 ELSE 0
            commission_amount == IF OrZero(p.commission_pct) # 0
                                 THEN final_price * p.commission_pct * 100 ELSE 0
            tariff_amount == IF acc_tariff # 0 THEN final_price * acc_tariff * 100 ELSE 0
            ad_amount == IF OrZero(p.ad_pct) # 0 THEN final_price * p.ad_pct * 100 ELSE 0
            total_costs == cost_price * 10000 + tax_amount + commission_amount
                           + tariff_amount + OrZero(p.logistics_cost) * 10000
                           + OrZero(p.storage_cost) * 10000 + ad_amount
            margin_rub == RoundDiv(final_price * 10000 - total_costs, 10000)
            margin_pct == RoundDiv(margin_rub * 1000, final_price)
        IN  [pct |-> Some(margin_pct), rub |-> Some(margin_rub)]

\* ------------------------------------------------------ out-of-stock handler
RECURSIVE SortedSeq(_)
\* the elements of a finite set of integers in ascending order
SortedSeq(S) ==
    IF S = {} THEN << >>
    ELSE LET m == CHOOSE x \in S : \A y \in S : x <= y
         IN  <<m>> \o SortedSeq(S \ {m})

\* cfg = {**DEFAULT_CONFIG, **config}
MergeConfig(config) ==
    [k \in ConfigKeys |-> IF config[k].t # "absent" THEN config[k] ELSE DEFAULT_CONFIG[k]]

\* a JSON value Python can compare and compute with as a number
IsNumber(j) == j.t \in {"num", "bool"}

\* truth value of a JSON value
Truthy(j) == IF j.t = "str" THEN TRUE ELSE j.v # 0

\* a JSON number read as a percentage (True is 1 %)
PctOf(j) == IF j.t = "bool" THEN 100 * j.v ELSE j.v

\* net = max((row[1] or 0) - (row[2] or 0), 0)
NetOf(orders, returns) == Max(orders - returns, 0)

\* Pairs (stock, orders_7d) of the data below for which the binary64 value of
\* stock / (orders_7d / 7.0) lies under an exact quotient that is a whole
\* number: 9 / (9 / 7.0) is 6.999999999999999.  For every other pair of the
\* data the binary64 value compares with whole days as the exact one does.
Binary64Below == {<<9, 9>>}

\* days_remaining < days, for days_remaining = stock / (orders_7d / 7.0) in
\* binary64 and orders_7d > 0
DaysBelow(stock, orders_7d, days) ==
    \/ 7 * stock < days * orders_7d
    \/ 7 * stock = days * orders_7d /\ <<stock, orders_7d>> \in Binary64Below

\* the product is passed over whatever its stock
ZeroStockSkip_Never(cfg, stock) == FALSE

\* if exclude_zero_stock and stock == 0: continue
ZeroStockSkip(cfg, stock) == Truthy(cfg["exclude_zero_stock"]) /\ stock = 0

\* the tier bump goes through uncapped
CappedIncrease_NoCap(increase_pct, max_price_increase_pct) == increase_pct

\* increase_pct = min(increase_pct, max_price_increase_pct)
CappedIncrease(increase_pct, max_price_increase_pct) ==
    Min(increase_pct, max_price_increase_pct)

\* what the handler has loaded for a product: the Product row, final_price of
\* its latest snapshot (None: no snapshot or no price), its 7-day sums of
\* orders and returns, the fee rates of its account
Loaded(product_id) ==
    [product_id |-> product_id,
     product |-> ProductTable[product_id],
     final_price |-> SnapshotTable[product_id],
     orders |-> OrdersTable[product_id].orders,
     returns |-> OrdersTable[product_id].returns,
     tax_rate |-> AccountTable[ProductTable[product_id].account_id].tax_rate,
     tariff_rate |-> AccountTable[ProductTable[product_id].account_id].tariff_rate]

\* one product loaded for each entry of product_ids
LoadProducts_PerLink(product_ids) ==
    [k \in DOMAIN product_ids |-> Loaded(product_ids[k])]

\* select(Product).where(Product.id.in_(product_ids)): the products of the
\* list, once each, here in ascending id
LoadProducts(product_ids) ==
    LET ids == SortedSeq({product_ids[i] : i \in DOMAIN product_ids})
    IN  [k \in DOMAIN ids |-> Loaded(ids[k])]

\* One pass of the loop body of OutOfStockHandler.execute for one product:
\* kind "skip" (continue), "raise" (TypeError on an ill-typed config value)
\* or "rec" with the PriceRecommendation.
LoopBody(cfg, d) ==
    LET product == d.product
        stock == OrZero(product.total_stock)
        final_price == d.final_price
        orders_7d == NetOf(d.orders, d.returns)
        skip == [kind |-> "skip"]
        raise == [kind |-> "raise"]
    IN  IF ZeroStockSkip(cfg, stock) THEN skip
        ELSE IF final_price = None \/ final_price = 0 THEN skip
        ELSE IF orders_7d <= 0 THEN skip
        ELSE IF ~IsNumber(cfg["threshold_days"]) THEN raise
        ELSE IF ~DaysBelow(stock, orders_7d, cfg["threshold_days"].v) THEN skip
        ELSE IF ~IsNumber(cfg["critical_days"]) THEN raise
        ELSE
        LET critical == DaysBelow(stock, orders_7d, cfg["critical_days"].v)
            tier_pct == IF critical THEN cfg["critical_increase_pct"]
                        ELSE cfg["price_increase_pct"]
        IN  IF ~IsNumber(tier_pct) \/ ~IsNumber(cfg["max_price_increase_pct"]) THEN raise
            ELSE
            LET increase_pct == CappedIncrease(PctOf(tier_pct),
                                               PctOf(cfg["max_price_increase_pct"]))
                recommended_price == RoundDiv(final_price * (10000 + increase_pct), 10000)
                cur == calculate_promo_margin(product, final_price,
                                              d.tax_rate, d.tariff_rate)
                new == calculate_promo_margin(product, recommended_price,
                                              d.tax_rate, d.tariff_rate)
            IN  IF cur.pct.some /\ ~IsNumber(cfg["min_margin_pct"]) THEN raise
                ELSE [kind |-> "rec",
                      product_id |-> d.product_id,
                      current_price |-> final_price,
                      recommended_price |-> recommended_price,
                      \* round(increase_pct, 1), in tenths of a percent
                      price_change_pct |-> RoundDiv(increase_pct, 10),
                      current_margin_pct |-> cur.pct,
                      new_margin_pct |-> new.pct,
                      new_margin_rub |-> new.rub,
                      alert_level |-> IF critical THEN "critical" ELSE "warning",
                      low_margin |-> cur.pct.some
                                     /\ cur.pct.v * 10 < PctOf(cfg["min_margin_pct"])]

RECURSIVE CollectRecs(_, _)
\* the recommendations of the loaded products of a sequence, in order
CollectRecs(cfg, ds) ==
    IF ds = << >> THEN << >>
    ELSE LET r == LoopBody(cfg, Head(ds))
         IN  (IF r.kind = "rec" THEN <<r>> ELSE << >>) \o CollectRecs(cfg, Tail(ds))

\* the loop over the loaded products: the list of recommendations, or
\* raised = TRUE when a pass raises
ExecuteLoop(cfg, ds) ==
    IF \E i \in DOMAIN ds : LoopBody(cfg, ds[i]).kind = "raise"
    THEN [raised |-> TRUE, recommendations |-> << >>]
    ELSE [raised |-> FALSE, recommendations |-> CollectRecs(cfg, ds)]

\* a handler that passes over the products a recommendation is stored for
OutOfStockHandler_execute_OnlyNew(config, product_ids) ==
    LET ids == SortedSeq({product_ids[i] : i \in DOMAIN product_ids}
                         \ {r.product_id : r \in price_history})
    IN  ExecuteLoop(MergeConfig(config), [k \in DOMAIN ids |-> Loaded(ids[k])])

\* OutOfStockHandler.execute(strategy, config, product_ids, db).  product_ids
\* is the list of active link rows (a product may occur twice).
OutOfStockHandler_execute(config, product_ids) ==
    ExecuteLoop(MergeConfig(config), LoadProducts(product_ids))

\* get_strategy_handler: the handler of a type, or None
get_strategy_handler(strategy_type) ==
    IF strategy_type \in _registry THEN strategy_type ELSE "None"

vars == <<strategies, links, executions, price_history, sess, run, batch,
          last_result, last_call, ncalls, ph_seq, crud, probe>>

EmptySession == [execs |-> {}, rows |-> {}, failed |-> FALSE]

IdleRun == [pc |-> "idle", strategy_id |-> 0, strategy |-> << >>, execution |-> 0,
            product_ids |-> << >>, recommendations |-> << >>]

NoResults == [strategies_run |-> 0, total_recommendations |-> 0, errors |-> << >>]

IdleBatch == [active |-> FALSE, strategies |-> << >>, loaded |-> << >>, i |-> 0,
              calls |-> << >>, results |-> NoResults]

NoResult == [kind |-> "none", results |-> NoResults, strategies |-> << >>,
             calls |-> << >>]

\* ------------------------------------------------------------ run_strategy
NoDetails == [kind |-> "null", total_products |-> 0, recommendations |-> 0,
              warning |-> 0, critical |-> 0]

\* StrategyExecution(strategy_id, status="running", triggered_by, executed_at)
\* with the column defaults
NewExecution(id, strategy_id, triggered_by) ==
    [id |-> id, strategy_id |-> strategy_id, status |-> "running",
     executed_at |-> id,
     products_processed |-> 0, recommendations_created |-> 0, errors_count |-> 0,
     details_json |-> NoDetails, completed_at |-> FALSE,
     triggered_by |-> triggered_by]

NoExecution == NewExecution(0, 0, "none")

\* One invocation of run_strategy, as an observer records it.  n: its number.
\* eligible: the strategy it loaded exists and is active.  no_handler,
\* no_products, handler_raised, flush_rejected: what the run met.  ended:
\* "running", "return", "ValueError" or "Exception".  execution: the
\* execution it gave back.  left: the status of the execution row in the
\* run's session when the run ended ("none": no such row).  closed: the
\* caller's session is over (committed or closed).  context: the
\* configuration and the assignments the run handed to the handler lookup
\* and the handler.
NoContext == [config_json |-> << >>, product_ids |-> << >>, read |-> FALSE]

NewCall(n, proc, strategy_id, found) ==
    [n |-> n, proc |-> proc, strategy_id |-> strategy_id, context |-> NoContext,
     eligible |-> (found # << >> /\ found[1].is_active),
     no_handler |-> FALSE, no_products |-> FALSE, handler_raised |-> FALSE,
     flush_rejected |-> FALSE, clean |-> FALSE,
     ended |-> "running", execution |-> NoExecution, left |-> "none",
     closed |-> FALSE]

NoCall == [NewCall(0, "none", 0, << >>) EXCEPT !.ended = "none"]

\* no call of the calculator or of the handler on data of its own
NoProbe == [fn |-> "none", done |-> FALSE]

\* the runner at rest: nothing ran, no session holds a row
RunnerAtRest ==
    /\ executions = {}
    /\ price_history = {}
    /\ sess = [p \in {"manual", "batch"} |-> EmptySession]
    /\ run = [p \in {"manual", "batch"} |-> IdleRun]
    /\ batch = IdleBatch
    /\ last_result = NoResult
    /\ last_call = NoCall
    /\ ncalls = 0
    /\ ph_seq = 0

Init ==
    /\ strategies = << >>
    /\ links = << >>
    /\ RunnerAtRest
    /\ crud = 0
    /\ probe = NoProbe

\* ----------------------------------------------------- strategy endpoints
RunnerVars == <<executions, price_history, sess, run, batch, last_result,
                last_call, ncalls, ph_seq>>

\* POST /strategies (is_active is left at its default)
create_strategy ==
    \E type \in TypeInputs, priority \in PriorityInputs, config_json \in ConfigInputs :
        /\ crud < MaxCrud
        /\ Len(strategies) < MaxStrategies
        /\ IF type \notin STRATEGY_TYPES
           THEN UNCHANGED <<strategies, crud>>          \* HTTP 400
           ELSE /\ strategies' = Append(strategies,
                        [type |-> type, config_json |-> config_json,
                         priority |-> priority, is_active |-> TRUE])
                /\ crud' = crud + 1
        /\ UNCHANGED <<links, RunnerVars, probe>>

\* the bodies StrategyUpdate is drawn from: one field set, the others None
UpdateInputs ==
    {[has_config |-> TRUE, config_json |-> c, priority |-> None, is_active |-> "None"] :
        c \in ConfigInputs}
    \cup {[has_config |-> FALSE, config_json |-> EmptyConfig, priority |-> pr,
           is_active |-> "None"] : pr \in PriorityInputs}
    \cup {[has_config |-> FALSE, config_json |-> EmptyConfig, priority |-> None,
           is_active |-> a] : a \in {"True", "False"}}

\* PUT /strategies/{strategy_id}
update_strategy ==
    \E strategy_id \in StrategyIdInputs, data \in UpdateInputs :
        /\ crud < MaxCrud
        /\ IF strategy_id \notin DOMAIN strategies
           THEN UNCHANGED <<strategies, crud>>          \* HTTP 404
           ELSE LET strategy == strategies[strategy_id]
                    updated ==
                      [strategy EXCEPT
                         !.config_json = IF data.has_config THEN data.config_json ELSE @,
                         !.priority = IF data.priority # None THEN data.priority ELSE @,
                         !.is_active = IF data.is_active # "None"
                                       THEN data.is_active = "True" ELSE @]
                IN  /\ strategies' = [strategies EXCEPT ![strategy_id] = updated]
                    /\ crud' = IF updated = strategy THEN crud ELSE crud + 1
        /\ UNCHANGED <<links, RunnerVars, probe>>

\* a deactivation that also closes the executions of the strategy as failed
delete_strategy_cancels ==
    \E strategy_id \in StrategyIdInputs :
        /\ crud < MaxCrud
        /\ strategy_id \in DOMAIN strategies
        /\ strategies' = [strategies EXCEPT ![strategy_id].is_active = FALSE]
        /\ crud' = IF strategies[strategy_id].is_active THEN crud + 1 ELSE crud
        /\ executions' = {IF e.strategy_id = strategy_id
                          THEN [e EXCEPT !.status = "failed"] ELSE e : e \in executions}
        /\ UNCHANGED <<links, price_history, sess, run, batch, last_result,
                       last_call, ncalls, ph_seq, probe>>

\* DELETE /strategies/{strategy_id}
delete_strategy ==
    \E strategy_id \in StrategyIdInputs :
        /\ crud < MaxCrud
        /\ IF strategy_id \notin DOMAIN strategies
           THEN UNCHANGED <<strategies, crud>>          \* HTTP 404
           ELSE /\ strategies' = [strategies EXCEPT ![strategy_id].is_active = FALSE]
                /\ crud' = IF strategies[strategy_id].is_active THEN crud + 1 ELSE crud
        /\ UNCHANGED <<links, RunnerVars, probe>>

\* product ids of the active links of a strategy, one per row, in row order
ActiveProductIds(strategy_id) ==
    LET ids == SortedSeq({i \in DOMAIN links :
                            /\ links[i].strategy_id = strategy_id
                            /\ links[i].is_active})
    IN  [k \in DOMAIN ids |-> links[ids[k]].product_id]

AssignInputs == {<<p>> : p \in Products} \cup {<<1, 1>>, <<1, 3>>}

\* POST /strategies/{strategy_id}/products
assign_products ==
    \E strategy_id \in StrategyIdInputs, product_ids \in AssignInputs :
        /\ crud < MaxCrud
        /\ IF strategy_id \notin DOMAIN strategies
           THEN UNCHANGED <<links, crud>>               \* HTTP 404
           ELSE LET active == ActiveProductIds(strategy_id)
                    existing_ids == {active[k] : k \in DOMAIN active}
                    added == SelectSeq(product_ids, LAMBDA pid : pid \notin existing_ids)
                IN  /\ Len(links) + Len(added) <= MaxLinks
                    /\ links' = links \o
                          [k \in DOMAIN added |->
                             [product_id |-> added[k], strategy_id |-> strategy_id,
                              is_active |-> TRUE]]
                    /\ crud' = IF added = << >> THEN crud ELSE crud + 1
        /\ UNCHANGED <<strategies, RunnerVars, probe>>

RemoveInputs == {{p} : p \in Products} \cup {{1, 3}}

\* DELETE /strategies/{strategy_id}/products
remove_products ==
    \E strategy_id \in StrategyIdInputs, product_ids \in RemoveInputs :
        /\ crud < MaxCrud
        /\ links' = [i \in DOMAIN links |->
                       IF /\ links[i].strategy_id = strategy_id
                          /\ links[i].product_id \in product_ids
                          /\ links[i].is_active
                       THEN [links[i] EXCEPT !.is_active = FALSE] ELSE links[i]]
        /\ crud' = IF links' = links THEN crud ELSE crud + 1
        /\ UNCHANGED <<strategies, RunnerVars, probe>>

\* ------------------------------------------------ the steps of run_strategy
\* the failure is recorded without its time
MarkNoHandler_NoCompletedAt(execution) ==
    [execution EXCEPT !.status = "failed",
                      !.details_json = [NoDetails EXCEPT !.kind = "error_no_handler"]]

\* the handler lookup missed: status, details_json, completed_at
MarkNoHandler(execution) ==
    [execution EXCEPT !.status = "failed",
                      !.details_json = [NoDetails EXCEPT !.kind = "error_no_handler"],
                      !.completed_at = TRUE]

\* no product is assigned
MarkNoProducts(execution) ==
    [execution EXCEPT !.status = "completed",
                      !.products_processed = 0,
                      !.recommendations_created = 0,
                      !.completed_at = TRUE,
                      !.details_json = [NoDetails EXCEPT !.kind = "message_no_products"]]

\* the failure is recorded but not counted
MarkHandlerFailed_NoCount(execution) ==
    [execution EXCEPT !.status = "failed",
                      !.details_json = [NoDetails EXCEPT !.kind = "error"],
                      !.completed_at = TRUE]

\* handler.execute raised
MarkHandlerFailed(execution) ==
    [execution EXCEPT !.status = "failed",
                      !.errors_count = 1,
                      !.details_json = [NoDetails EXCEPT !.kind = "error"],
                      !.completed_at = TRUE]

\* every recommendation is counted under every level
CountLevel_All(recommendations, level) ==
    Len(recommendations)

\* number of entries of a list of recommendations with an alert level
CountLevel(recommendations, level) ==
    Cardinality({i \in DOMAIN recommendations : recommendations[i].alert_level = level})

\* recommendations_created taken from the assignments, not from the rows
MarkCompleted_CountsProducts(execution, product_ids, recommendations, saved) ==
    [execution EXCEPT !.status = "completed",
                      !.products_processed = Len(product_ids),
                      !.recommendations_created = Len(product_ids),
                      !.completed_at = TRUE,
                      !.details_json =
                          [kind |-> "summary", total_products |-> Len(product_ids),
                           recommendations |-> saved,
                           warning |-> CountLevel(recommendations, "warning"),
                           critical |-> CountLevel(recommendations, "critical")]]

\* the handler returned: counts, completed_at and the summary
MarkCompleted(execution, product_ids, recommendations, saved) ==
    [execution EXCEPT !.status = "completed",
                      !.products_processed = Len(product_ids),
                      !.recommendations_created = saved,
                      !.completed_at = TRUE,
                      !.details_json =
                          [kind |-> "summary", total_products |-> Len(product_ids),
                           recommendations |-> saved,
                           warning |-> CountLevel(recommendations, "warning"),
                           critical |-> CountLevel(recommendations, "critical")]]

\* the row is stored as a price already applied
NewPriceHistory_Applied(id, rec, strategy_id, execution) ==
    [id |-> id, product_id |-> rec.product_id,
     price_before_discount |-> rec.current_price, discount |-> 0,
     price_after_discount |-> rec.recommended_price,
     margin_rub |-> rec.new_margin_rub, margin_pct |-> rec.new_margin_pct,
     alert_level |-> rec.alert_level, low_margin |-> rec.low_margin,
     strategy_id |-> strategy_id, is_applied |-> TRUE, created_at |-> ncalls,
     execution |-> execution]

\* PriceHistory(...) of one recommendation; execution is the run that added
\* the row (observation only: the table has no such column)
NewPriceHistory(id, rec, strategy_id, execution) ==
    [id |-> id, product_id |-> rec.product_id,
     price_before_discount |-> rec.current_price, discount |-> 0,
     price_after_discount |-> rec.recommended_price,
     margin_rub |-> rec.new_margin_rub, margin_pct |-> rec.new_margin_pct,
     alert_level |-> rec.alert_level, low_margin |-> rec.low_margin,
     strategy_id |-> strategy_id, is_applied |-> FALSE, created_at |-> ncalls,
     execution |-> execution]

\* the rows added by the loop over the recommendations, ids from first_id on
NewRows(recommendations, first_id, strategy_id, execution) ==
    {NewPriceHistory(first_id + i - 1, recommendations[i], strategy_id, execution) :
        i \in DOMAIN recommendations}

\* INSERT of a price_history row fails: margin_pct is Numeric(5, 2), and a
\* value of 1000 % or more in absolute value overflows it
FlushRejects(rows) ==
    \E r \in rows : r.margin_pct.some /\ Abs(r.margin_pct.v) >= 10000

\* the session with one of its flushed executions replaced by its new value
WithExecution(session, execution) ==
    [session EXCEPT !.execs = {e \in @ : e.id # execution.id} \cup {execution}]

\* the execution row of a run, as its session sees it
ExecutionOf(session, r) == CHOOSE e \in session.execs : e.id = r.execution

\* a flush the database rejected: the transaction is rolled back and the
\* session refuses every later statement
RolledBack == [execs |-> {}, rows |-> {}, failed |-> TRUE]

\* result of a step of run_strategy: how it ended ("continue": not ended),
\* the session and the locals afterwards, and the execution given back
Step(ended, session, r, execution) ==
    [ended |-> ended, session |-> session, run |-> r, execution |-> execution]

\* the check without the test of is_active
StartCheck_IgnoresActive(found) ==
    IF found = << >> THEN "not_found" ELSE "ok"

\* the check of the loaded strategy (scalar_one_or_none as a list of 0 or 1)
StartCheck(found) ==
    IF found = << >> THEN "not_found"
    ELSE IF ~found[1].is_active THEN "inactive"
    ELSE "ok"

\* run_strategy up to the first flush: load and check the strategy, add the
\* execution in status running
run_strategy_start(session, strategy_id, found, triggered_by, id) ==
    IF session.failed THEN Step("Exception", session, IdleRun, NoExecution)
    ELSE IF StartCheck(found) # "ok" THEN Step("ValueError", session, IdleRun, NoExecution)
    ELSE LET execution == NewExecution(id, strategy_id, triggered_by)
         IN  Step("continue",
                  [session EXCEPT !.execs = @ \cup {execution}],
                  [IdleRun EXCEPT !.pc = "created", !.strategy_id = strategy_id,
                                  !.strategy = found, !.execution = id],
                  execution)

\* a handler that adds its recommendations to the session by itself
run_strategy_dispatch_Stores(session, r) ==
    LET strategy == r.strategy[1]
        execution == ExecutionOf(session, r)
        handler == get_strategy_handler(strategy.type)
        product_ids == ActiveProductIds(r.strategy_id)
        result == OutOfStockHandler_execute(strategy.config_json, product_ids)
    IN  IF handler = "None"
        THEN Step("ValueError", WithExecution(session, MarkNoHandler(execution)),
                  IdleRun, MarkNoHandler(execution))
        ELSE IF product_ids = << >>
        THEN Step("return", WithExecution(session, MarkNoProducts(execution)),
                  IdleRun, MarkNoProducts(execution))
        ELSE IF result.raised
        THEN Step("return", WithExecution(session, MarkHandlerFailed(execution)),
                  IdleRun, MarkHandlerFailed(execution))
        ELSE Step("continue",
                  [session EXCEPT !.rows = @ \cup NewRows(result.recommendations,
                                                          ph_seq + 1, r.strategy_id,
                                                          r.execution)],
                  [r EXCEPT !.pc = "executed", !.product_ids = product_ids,
                            !.recommendations = result.recommendations],
                  execution)

\* run_strategy from the handler lookup to the return of handler.execute
run_strategy_dispatch(session, r) ==
    LET strategy == r.strategy[1]
        execution == ExecutionOf(session, r)
        handler == get_strategy_handler(strategy.type)
        product_ids == ActiveProductIds(r.strategy_id)
        result == OutOfStockHandler_execute(strategy.config_json, product_ids)
    IN  IF handler = "None"
        THEN Step("ValueError", WithExecution(session, MarkNoHandler(execution)),
                  IdleRun, MarkNoHandler(execution))
        ELSE IF product_ids = << >>
        THEN Step("return", WithExecution(session, MarkNoProducts(execution)),
                  IdleRun, MarkNoProducts(execution))
        ELSE IF result.raised
        THEN Step("return", WithExecution(session, MarkHandlerFailed(execution)),
                  IdleRun, MarkHandlerFailed(execution))
        ELSE Step("continue", session,
                  [r EXCEPT !.pc = "executed", !.product_ids = product_ids,
                            !.recommendations = result.recommendations],
                  execution)

\* a rejected row is dropped by itself: the rows the database takes stay in
\* the session and the execution stays as it was
run_strategy_persist_Partial(session, r, first_id) ==
    LET execution == ExecutionOf(session, r)
        rows == NewRows(r.recommendations, first_id, r.strategy_id, r.execution)
        saved == Cardinality(rows)
        completed == MarkCompleted(execution, r.product_ids, r.recommendations, saved)
    IN  IF FlushRejects(rows)
        THEN Step("Exception",
                  [session EXCEPT !.rows = @ \cup {x \in rows : ~FlushRejects({x})}],
                  IdleRun, completed)
        ELSE Step("return",
                  [WithExecution(session, completed) EXCEPT !.rows = @ \cup rows],
                  IdleRun, completed)

\* run_strategy after handler.execute returned: add the rows, complete the
\* execution, flush
run_strategy_persist(session, r, first_id) ==
    LET execution == ExecutionOf(session, r)
        rows == NewRows(r.recommendations, first_id, r.strategy_id, r.execution)
        saved == Cardinality(rows)
        completed == MarkCompleted(execution, r.product_ids, r.recommendations, saved)
    IN  IF FlushRejects(rows)
        THEN Step("Exception", RolledBack, IdleRun, completed)
        ELSE Step("return",
                  [WithExecution(session, completed) EXCEPT !.rows = @ \cup rows],
                  IdleRun, completed)

\* ------------------------------------------------ observation of the calls
\* the record of a call after a step o of run_strategy
Logged(entry, o) ==
    [entry EXCEPT !.ended = IF o.ended = "continue" THEN "running" ELSE o.ended,
                  !.execution = IF o.ended = "return" THEN o.execution ELSE @,
                  !.flush_rejected = (o.ended = "Exception" /\ o.execution # NoExecution),
                  !.left = IF o.ended = "continue" THEN "none"
                           ELSE LET own == {e \in o.session.execs : e.id = entry.n}
                                IN  IF own = {} THEN "none"
                                    ELSE (CHOOSE e \in own : TRUE).status]

\* what the dispatch step met, read off the state it ran in
Met(entry, r) ==
    LET no_handler == get_strategy_handler(r.strategy[1].type) = "None"
        product_ids == ActiveProductIds(r.strategy_id)
    IN  [entry EXCEPT
           !.context = [config_json |-> r.strategy[1].config_json,
                        product_ids |-> product_ids, read |-> TRUE],
           !.no_handler = no_handler,
           !.no_products = (product_ids = << >>),
           !.handler_raised =
               /\ ~no_handler
               /\ product_ids # << >>
               /\ OutOfStockHandler_execute(r.strategy[1].config_json, product_ids).raised]

\* a run of the strategy on the present assignments would meet no fault: its
\* type has a handler, the handler does not raise, the rows can be stored
WouldComplete(found, strategy_id) ==
    /\ StartCheck(found) = "ok"
    /\ get_strategy_handler(found[1].type) # "None"
    /\ LET product_ids == ActiveProductIds(strategy_id)
           result == OutOfStockHandler_execute(found[1].config_json, product_ids)
       IN  \/ product_ids = << >>
           \/ /\ ~result.raised
              /\ ~FlushRejects(NewRows(result.recommendations, 1, strategy_id, 0))

\* the record of a call that begins
Begun(n, proc, strategy_id, found) ==
    [NewCall(n, proc, strategy_id, found) EXCEPT
        !.clean = WouldComplete(found, strategy_id)]

\* scalar_one_or_none of select(Strategy).where(Strategy.id == strategy_id)
Lookup(strategy_id) ==
    IF strategy_id \in DOMAIN strategies THEN <<strategies[strategy_id]>> ELSE << >>

\* ----------------------------------------- POST /strategies/{id}/run
\* The endpoint after a step o of its run_strategy call: still running; or
\* run_strategy returned and the endpoint commits; or it raised, the endpoint
\* answers with an error and its session is closed without commit.
ManualAfter(o, entry) ==
    /\ run' = [run EXCEPT !["manual"] = o.run]
    /\ IF o.ended = "continue"
       THEN /\ sess' = [sess EXCEPT !["manual"] = o.session]
            /\ UNCHANGED <<executions, price_history>>
       ELSE IF o.ended = "return"
       THEN /\ executions' = executions \cup o.session.execs
            /\ price_history' = price_history \cup o.session.rows
            /\ sess' = [sess EXCEPT !["manual"] = EmptySession]
       ELSE /\ sess' = [sess EXCEPT !["manual"] = EmptySession]
            /\ UNCHANGED <<executions, price_history>>
    /\ last_call' = [Logged(entry, o) EXCEPT !.closed = (o.ended # "continue")]

\* the endpoint opens its session and calls run_strategy
EndpointCalls(strategy_id) ==
    /\ ncalls' = ncalls + 1
    /\ LET found == Lookup(strategy_id)
           o == run_strategy_start(EmptySession, strategy_id, found, "manual",
                                   ncalls + 1)
       IN  ManualAfter(o, Begun(ncalls + 1, "manual", strategy_id, found))
    /\ UNCHANGED <<strategies, links, batch, last_result, ph_seq, crud, probe>>

run_strategy_endpoint_start ==
    \E strategy_id \in StrategyIdInputs :
        /\ run["manual"].pc = "idle"
        /\ ~batch.active
        /\ ncalls < MaxCalls
        /\ EndpointCalls(strategy_id)

run_strategy_endpoint_dispatch ==
    /\ run["manual"].pc = "created"
    /\ LET r == run["manual"]
           o == run_strategy_dispatch(sess["manual"], r)
       IN  ManualAfter(o, Met(last_call, r))
    /\ UNCHANGED <<strategies, links, batch, last_result, ncalls, ph_seq, crud,
                   probe>>

run_strategy_endpoint_persist ==
    /\ run["manual"].pc = "executed"
    /\ LET r == run["manual"]
           o == run_strategy_persist(sess["manual"], r, ph_seq + 1)
       IN  /\ ManualAfter(o, last_call)
           /\ ph_seq' = ph_seq + Len(r.recommendations)
    /\ UNCHANGED <<strategies, links, batch, last_result, ncalls, crud, probe>>

\* ------------------------------------------- run_all_active_strategies
\* the orders of a query without ORDER BY
Orderings_Unsorted(ids) ==
    {order \in [1 .. Cardinality(ids) -> ids] :
        \A i, j \in DOMAIN order : i # j => order[i] # order[j]}

\* the orders in which ORDER BY priority ASC may deliver a set of strategies
Orderings(ids) ==
    {order \in [1 .. Cardinality(ids) -> ids] :
        /\ \A i, j \in DOMAIN order : i # j => order[i] # order[j]
        /\ \A i, j \in DOMAIN order :
              i < j => strategies[order[i]].priority <= strategies[order[j]].priority}

\* the session is opened and the active strategies are loaded
BatchLoads ==
    /\ LET active == {i \in DOMAIN strategies : strategies[i].is_active}
       IN  /\ ncalls + Cardinality(active) <= MaxCalls
           /\ \E order \in Orderings(active) :
                batch' = [IdleBatch EXCEPT
                            !.active = TRUE,
                            !.strategies = [k \in DOMAIN order |-> order[k]],
                            !.loaded = [k \in DOMAIN order |-> strategies[order[k]]]]
    /\ UNCHANGED <<strategies, links, executions, price_history, sess, run,
                   last_result, last_call, ncalls, ph_seq, crud, probe>>

run_all_active_strategies_load ==
    /\ ~batch.active
    /\ run["manual"].pc = "idle"
    /\ BatchLoads

\* a loop that forgets the strategies whose run raised
BatchAfter_DropsErrors(o, entry) ==
    LET k == batch.i + 1
        logged == IF k > Len(batch.calls) THEN Append(batch.calls, Logged(entry, o))
                  ELSE [batch.calls EXCEPT ![k] = Logged(entry, o)]
    IN  /\ run' = [run EXCEPT !["batch"] = o.run]
        /\ sess' = [sess EXCEPT !["batch"] = o.session]
        /\ batch' =
             IF o.ended = "continue"
             THEN [batch EXCEPT !.calls = logged]
             ELSE [batch EXCEPT
                     !.i = @ + 1,
                     !.calls = logged,
                     !.results =
                        IF o.ended = "return"
                        THEN [@ EXCEPT !.strategies_run = @ + 1,
                                       !.total_recommendations =
                                           @ + o.execution.recommendations_created]
                        ELSE @]

\* The loop body after a step o of its run_strategy call: still running; or
\* run_strategy returned and the counters are raised; or it raised and the
\* strategy is appended to errors.
BatchAfter(o, entry) ==
    LET k == batch.i + 1
        logged == IF k > Len(batch.calls) THEN Append(batch.calls, Logged(entry, o))
                  ELSE [batch.calls EXCEPT ![k] = Logged(entry, o)]
    IN  /\ run' = [run EXCEPT !["batch"] = o.run]
        /\ sess' = [sess EXCEPT !["batch"] = o.session]
        /\ batch' =
             IF o.ended = "continue"
             THEN [batch EXCEPT !.calls = logged]
             ELSE [batch EXCEPT
                     !.i = @ + 1,
                     !.calls = logged,
                     !.results =
                        IF o.ended = "return"
                        THEN [@ EXCEPT !.strategies_run = @ + 1,
                                       !.total_recommendations =
                                           @ + o.execution.recommendations_created]
                        ELSE [@ EXCEPT !.errors = Append(@, entry.strategy_id)]]

run_all_active_strategies_start ==
    /\ batch.active
    /\ run["batch"].pc = "idle"
    /\ batch.i < Len(batch.strategies)
    /\ ncalls' = ncalls + 1
    /\ LET strategy_id == batch.strategies[batch.i + 1]
           \* the instance loaded before the loop: the session does not
           \* overwrite the attributes of an instance it already holds
           found == <<batch.loaded[batch.i + 1]>>
           o == run_strategy_start(sess["batch"], strategy_id, found, "schedule",
                                   ncalls + 1)
       IN  BatchAfter(o, Begun(ncalls + 1, "batch", strategy_id, found))
    /\ UNCHANGED <<strategies, links, executions, price_history, last_result,
                   last_call, ph_seq, crud, probe>>

run_all_active_strategies_dispatch ==
    /\ run["batch"].pc = "created"
    /\ LET r == run["batch"]
           o == run_strategy_dispatch(sess["batch"], r)
       IN  BatchAfter(o, Met(batch.calls[batch.i + 1], r))
    /\ UNCHANGED <<strategies, links, executions, price_history, last_result,
                   last_call, ncalls, ph_seq, crud, probe>>

run_all_active_strategies_persist ==
    /\ run["batch"].pc = "executed"
    /\ LET r == run["batch"]
           o == run_strategy_persist(sess["batch"], r, ph_seq + 1)
       IN  /\ BatchAfter(o, batch.calls[batch.i + 1])
           /\ ph_seq' = ph_seq + Len(r.recommendations)
    /\ UNCHANGED <<strategies, links, executions, price_history, last_result,
                   last_call, ncalls, crud, probe>>

\* after the loop: commit (it raises on a session whose flush failed), the
\* session is closed and the results are returned
run_all_active_strategies_commit ==
    /\ batch.active
    /\ run["batch"].pc = "idle"
    /\ batch.i = Len(batch.strategies)
    /\ IF sess["batch"].failed
       THEN UNCHANGED <<executions, price_history>>
       ELSE /\ executions' = executions \cup sess["batch"].execs
            /\ price_history' = price_history \cup sess["batch"].rows
    /\ last_result' =
         [kind |-> IF sess["batch"].failed THEN "raised" ELSE "returned",
          results |-> batch.results,
          strategies |-> batch.strategies,
          calls |-> [k \in DOMAIN batch.calls |->
                       [batch.calls[k] EXCEPT !.closed = TRUE]]]
    /\ sess' = [sess EXCEPT !["batch"] = EmptySession]
    /\ batch' = IdleBatch
    /\ UNCHANGED <<strategies, links, run, last_call, ncalls, ph_seq, crud, probe>>

\* ------------------------------------------------------------ specification
Next ==
    \/ create_strategy
    \/ update_strategy
    \/ delete_strategy
    \/ assign_products
    \/ remove_products
    \/ run_strategy_endpoint_start
    \/ run_strategy_endpoint_dispatch
    \/ run_strategy_endpoint_persist
    \/ run_all_active_strategies_load
    \/ run_all_active_strategies_start
    \/ run_all_active_strategies_dispatch
    \/ run_all_active_strategies_persist
    \/ run_all_active_strategies_commit

Spec == Init /\ [][Next]_vars

\* ------------------------------- the endpoint and the batch at the same time
\* The run endpoint (a web worker) and the scheduled batch (a Celery worker)
\* are processes of their own: a run of one may begin while a run of the
\* other is under way.  Here the strategies and assignments are in place
\* from the start and are edited no more.
OverlapStrategies ==
    {<<[type |-> type, config_json |-> config_json, priority |-> 1,
        is_active |-> TRUE]>> :
        type \in TypeInputs \cap STRATEGY_TYPES, config_json \in ConfigInputs}

OverlapLinks ==
    {[k \in DOMAIN ids |-> [product_id |-> ids[k], strategy_id |-> 1,
                            is_active |-> TRUE]] :
        ids \in {<< >>} \cup {<<p>> : p \in Products} \cup {<<1, 3>>}}

OverlapInit ==
    /\ strategies \in OverlapStrategies
    /\ links \in OverlapLinks
    /\ RunnerAtRest
    /\ crud = 0
    /\ probe = NoProbe

\* calls of run_strategy the batch under way has yet to begin
BatchPending ==
    IF batch.active
    THEN Len(batch.strategies) - batch.i - (IF run["batch"].pc = "idle" THEN 0 ELSE 1)
    ELSE 0

\* POST /strategies/{id}/run while the batch is under way
run_strategy_endpoint_start_in_batch ==
    \E strategy_id \in StrategyIdInputs :
        /\ run["manual"].pc = "idle"
        /\ batch.active
        /\ ncalls + BatchPending < MaxCalls
        /\ EndpointCalls(strategy_id)

\* the batch begins while the endpoint is in run_strategy
run_all_active_strategies_load_in_run ==
    /\ ~batch.active
    /\ run["manual"].pc # "idle"
    /\ BatchLoads

NextOverlap ==
    \/ run_strategy_endpoint_start
    \/ run_strategy_endpoint_start_in_batch
    \/ run_strategy_endpoint_dispatch
    \/ run_strategy_endpoint_persist
    \/ run_all_active_strategies_load
    \/ run_all_active_strategies_load_in_run
    \/ run_all_active_strategies_start
    \/ run_all_active_strategies_dispatch
    \/ run_all_active_strategies_persist
    \/ run_all_active_strategies_commit

SpecOverlap == OverlapInit /\ [][NextOverlap]_vars

\* ------------------------------------------ the margin calculator by itself
\* arguments of calculate_promo_margin: a product's cost profile, a price,
\* the fee rates of the account
MarginInputs ==
    [product : [cost_price : {None, 0, 100, 40000},
                commission_pct : {None, 0, 15},
                logistics_cost : {None, 5000},
                storage_cost : {None, 2000},
                ad_pct : {None, 5},
                spp_pct : {None, 10},
                extra_costs_total : {0, 1000}],
     price : {None, -100, 0, 333, 100000},
     account_tax : {0, 6},
     account_tariff : {0, 2}]

MarginInit ==
    /\ strategies = << >>
    /\ links = << >>
    /\ RunnerAtRest
    /\ crud = 0
    /\ probe \in [fn : {"margin"}, done : {FALSE}, input : MarginInputs]

\* the call returns
calculate_promo_margin_call ==
    /\ probe.fn = "margin"
    /\ ~probe.done
    /\ probe' = [fn |-> "margin", done |-> TRUE, input |-> probe.input,
                 output |-> calculate_promo_margin(probe.input.product,
                                                   probe.input.price,
                                                   probe.input.account_tax,
                                                   probe.input.account_tariff)]
    /\ UNCHANGED <<strategies, links, RunnerVars, crud>>

NextMargin == calculate_promo_margin_call

SpecMargin == MarginInit /\ [][NextMargin]_vars

\* ------------------------------------------------ the handler by itself
\* stored configurations: the defaults; an ill-typed threshold; zero stock
\* not excluded; critical_days above threshold_days; a fractional warning
\* bump and a ceiling under the critical bump
HandlerConfigs ==
    {EmptyConfig,
     BadConfig,
     [EmptyConfig EXCEPT !["exclude_zero_stock"] = JBool(FALSE)],
     [EmptyConfig EXCEPT !["threshold_days"] = JNum(3), !["critical_days"] = JNum(7)],
     [EmptyConfig EXCEPT !["price_increase_pct"] = JNum(1234),
                         !["max_price_increase_pct"] = JNum(2000)]}

\* what the handler may load for the product of an id: stock, cost price,
\* latest price and 7-day orders vary, the fees are those of product 1
DataOf(product_id, stocks, prices, costs, sales) ==
    {[product_id |-> product_id,
      product |-> [ProductTable[1] EXCEPT !.total_stock = stock, !.cost_price = cost],
      final_price |-> price,
      orders |-> sale[1], returns |-> sale[2],
      tax_rate |-> 6, tariff_rate |-> 0] :
        stock \in stocks, price \in prices, cost \in costs, sale \in sales}

\* the products of a call: one product, or the same before a second one
HandlerData ==
    LET first == DataOf(1, {None, 0, 9, 20, 50, 100}, {None, 333, 100000},
                        {None, 40000}, {<<0, 0>>, <<9, 0>>, <<75, 5>>, <<5, 10>>})
        second == DataOf(2, {0, 50}, {100000}, {None, 40000}, {<<75, 5>>})
    IN  {<<d>> : d \in first} \cup {<<d, e>> : d \in first, e \in second}

HandlerInit ==
    /\ strategies = << >>
    /\ links = << >>
    /\ RunnerAtRest
    /\ crud = 0
    /\ probe \in [fn : {"handler"}, done : {FALSE}, config : HandlerConfigs,
                  ds : HandlerData]

\* handler.execute returns or raises
OutOfStockHandler_execute_call ==
    /\ probe.fn = "handler"
    /\ ~probe.done
    /\ probe' = [fn |-> "handler", done |-> TRUE, config |-> probe.config,
                 ds |-> probe.ds,
                 output |-> ExecuteLoop(MergeConfig(probe.config), probe.ds)]
    /\ UNCHANGED <<strategies, links, RunnerVars, crud>>

NextHandler == OutOfStockHandler_execute_call

SpecHandler == HandlerInit /\ [][NextHandler]_vars

\* ------------------------------------------------------------ observations
Range(f) == {f[k] : k \in DOMAIN f}

\* the calls on record: of the run endpoint, of the batch under way and of
\* the last batch that ended
AllCalls == ({last_call} \cup Range(batch.calls) \cup Range(last_result.calls)) \ {NoCall}

\* the calls that are over
EndedCalls == {c \in AllCalls : c.ended # "running"}

\* the stores: the committed rows, and what each session sees beside them
Stores ==
    {[execs |-> executions, rows |-> price_history]}
    \cup {[execs |-> sess[p].execs, rows |-> sess[p].rows] : p \in DOMAIN sess}

\* the rows a store holds of one execution
RowsOf(store, id) == {r \in store.rows : r.execution = id}

Terminal(e) == e.status \in {"completed", "failed"}

\* C1: every invocation of run_strategy on an existing, active strategy, by
\* the run endpoint or by the batch, leaves exactly one committed execution
\* once its caller is done, whatever the outcome of the run.
C1_OneCommittedExecutionPerRun ==
    \A c \in AllCalls :
        (c.eligible /\ c.closed) => Cardinality({e \in executions : e.id = c.n}) = 1

\* C2: an execution appears in status running; its status changes at most
\* once, to completed or failed; a completed or failed execution is never
\* changed again by any operation.
C2_Step ==
    LET before == UNION {st.execs : st \in Stores}
        after == UNION {st.execs : st \in Stores'}
    IN  /\ \A e \in after :
              (\A b \in before : b.id # e.id) =>
                  e = NewExecution(e.id, e.strategy_id, e.triggered_by)
        /\ \A b \in before, e \in after :
              b.id = e.id =>
                  /\ Terminal(b) => e = b
                  /\ ~Terminal(b) => (e = b \/ Terminal(e))

C2_StatusChangesOnce == [][C2_Step]_vars

\* an ended execution of a strategy that has been deactivated since, with a
\* later execution beside it
C2_Witness ==
    \E e \in executions :
        /\ Terminal(e)
        /\ ~strategies[e.strategy_id].is_active
        /\ \E f \in executions : f.id > e.id /\ Terminal(f)

\* C3: run_strategy on an id that matches no strategy, or on an inactive
\* strategy, raises the caller error and leaves every stored row as it was.
C3_Step ==
    \A c \in AllCalls' :
        (c.n = ncalls' /\ ncalls' # ncalls /\ ~c.eligible) =>
            /\ c.ended = "ValueError"
            /\ executions' = executions
            /\ price_history' = price_history
            /\ sess' = sess
            /\ strategies' = strategies
            /\ links' = links

C4_NoProductsCompletes ==
    \A c \in EndedCalls :
        (c.eligible /\ c.no_products) =>
            /\ c.ended = "return"
            /\ c.execution.status = "completed"
            /\ c.execution.products_processed = 0
            /\ c.execution.recommendations_created = 0
            /\ \A s \in Stores : RowsOf(s, c.n) = {}

\* C5: a run whose strategy type has no handler leaves an execution in status
\* failed with errors_count 1 and no recommendation.
C5_NoHandlerFailedWithOneError ==
    \A c \in EndedCalls :
        (c.no_handler /\ c.closed) =>
            /\ \E e \in executions :
                  e.id = c.n /\ e.status = "failed" /\ e.errors_count = 1
            /\ RowsOf([execs |-> executions, rows |-> price_history], c.n) = {}

\* C6: when handler.execute raises, run_strategy returns the execution in
\* status failed with errors_count 1, the error in the summary and no
\* recommendation counted or stored.
C6_HandlerExceptionIsRecorded ==
    \A c \in EndedCalls :
        c.handler_raised =>
            /\ c.ended = "return"
            /\ c.execution.status = "failed"
            /\ c.execution.errors_count = 1
            /\ c.execution.details_json.kind = "error"
            /\ c.execution.recommendations_created = 0
            /\ \A s \in Stores : RowsOf(s, c.n) = {}

\* a run whose handler raised has ended
C6_Witness == \E c \in EndedCalls : c.handler_raised /\ c.execution.id = c.n

\* the run of a call met no fault of its own
Faultless(c) ==
    c.clean /\ ~c.no_handler /\ ~c.handler_raised /\ ~c.flush_rejected

\* C7: a batch invokes run_strategy once for each strategy that was active
\* when it began, whatever failed before; a strategy whose own run has no
\* fault ends completed and its recommendations are committed.
C7_BatchIsolation ==
    last_result.kind # "none" =>
        /\ Len(last_result.calls) = Len(last_result.strategies)
        /\ \A k \in DOMAIN last_result.calls :
              LET c == last_result.calls[k]
              IN  /\ c.strategy_id = last_result.strategies[k]
                  /\ Faultless(c) =>
                        \E e \in executions :
                            /\ e.id = c.n
                            /\ e.status = "completed"
                            /\ Cardinality({r \in price_history : r.execution = e.id})
                                  = e.recommendations_created

\* C8: in a batch where the handler of A raises and B succeeds, the rows of B
\* are committed, A is in the errors of the result and adds nothing to
\* total_recommendations.
C8_FailedStrategyInErrors ==
    last_result.kind = "returned" =>
        \A a, b \in Range(last_result.calls) :
            (a.handler_raised /\ b.ended = "return" /\ b.execution.status = "completed") =>
                /\ Cardinality({r \in price_history : r.execution = b.n})
                      = b.execution.recommendations_created
                /\ a.strategy_id \in Range(last_result.results.errors)
                /\ a.execution.recommendations_created = 0

\* C9: a batch runs the strategies that were active when it began, one after
\* the other in ascending priority: when the run of B begins, the run of every
\* A of lower priority is over.
C9_BatchRunsInPriorityOrder ==
    /\ \A k \in DOMAIN batch.loaded : batch.loaded[k].is_active
    /\ Len(batch.calls) <= Len(batch.strategies)
    /\ \A j \in DOMAIN batch.calls :
          /\ batch.calls[j].strategy_id = batch.strategies[j]
          /\ \A i \in DOMAIN batch.strategies :
                batch.loaded[i].priority < batch.loaded[j].priority =>
                    /\ i \in DOMAIN batch.calls
                    /\ batch.calls[i].ended # "running"
                    /\ \A e \in sess["batch"].execs :
                          e.strategy_id = batch.strategies[i] => Terminal(e)

\* the batch runs the strategy created second before the one created first
C9_Witness ==
    /\ Len(batch.calls) = 2
    /\ batch.strategies[1] > batch.strategies[2]
    /\ batch.loaded[1].priority < batch.loaded[2].priority
    /\ \E e \in sess["batch"].execs : e.id = batch.calls[2].n

\* C10: recommendations_created of every execution is the number of
\* price_history rows the execution added, and 0 when it failed or had no
\* product.
C10_CountEqualsRows ==
    \A s \in Stores :
        \A e \in s.execs :
            /\ e.recommendations_created = Cardinality(RowsOf(s, e.id))
            /\ (e.status = "failed" \/ e.details_json.kind = "message_no_products")
                  => e.recommendations_created = 0

\* a committed execution with two rows
C10_Witness ==
    \E e \in executions :
        /\ e.recommendations_created = 2
        /\ Cardinality({r \in price_history : r.execution = e.id}) = 2

\* ---------------------------------------------------------------- C13
\* a call of the margin calculator that returned
Returned(fn) == probe.fn = fn /\ probe.done

\* C13: the margin calculator returns (None, None) whenever the price is
\* absent, the price is not above 0 or the cost price is absent, whatever
\* the fees are.
C13_NoMarginWithoutPriceOrCost ==
    Returned("margin") =>
        LET i == probe.input
        IN  (i.price = None \/ i.price <= 0 \/ i.product.cost_price = None)
                => ~probe.output.pct.some /\ ~probe.output.rub.some

\* a call with a price and all fees but no cost price returned
C13_Witness ==
    /\ Returned("margin")
    /\ probe.input.price = 100000
    /\ probe.input.product.cost_price = None
    /\ probe.input.product.commission_pct = 15
    /\ ~probe.output.pct.some

\* ---------------------------------------------------------------- C14
\* the reference algorithm of the margin: (margin_pct in tenths of a percent,
\* margin_amount in kopecks) for a price > 0 and a cost price that is present
ReferenceMargin(i) ==
    LET p == i.product
        buyer_price == IF OrZero(p.spp_pct) # 0 THEN i.price * (100 - p.spp_pct)
                       ELSE i.price * 100
        total_costs == p.cost_price * 10000
                       + buyer_price * i.account_tax
                       + i.price * OrZero(p.commission_pct) * 100
                       + i.price * i.account_tariff * 100
                       + OrZero(p.logistics_cost) * 10000
                       + OrZero(p.storage_cost) * 10000
                       + i.price * OrZero(p.ad_pct) * 100
                       + p.extra_costs_total * 10000
        margin_amount == RoundDiv(i.price * 10000 - total_costs, 10000)
    IN  [pct |-> Some(RoundDiv(margin_amount * 1000, i.price)),
         rub |-> Some(margin_amount)]

\* the example: price 1000, cost 400, commission 15, logistics 50, storage 20,
\* ad 5, spp 10, no extra costs, tax 6, tariff 0
ExampleInput ==
    [product |-> [cost_price |-> 40000, commission_pct |-> 15,
                  logistics_cost |-> 5000, storage_cost |-> 2000, ad_pct |-> 5,
                  spp_pct |-> 10, extra_costs_total |-> 0],
     price |-> 100000, account_tax |-> 6, account_tariff |-> 0]

\* C14: for every price > 0 and every cost price that is present (0
\* included) the margin calculator returns the pair of the reference
\* algorithm; the example gives 276.0 and 27.6 %.
C14_MarginIsReference ==
    Returned("margin") =>
        LET i == probe.input
        IN  /\ (i.price # None /\ i.price > 0 /\ i.product.cost_price # None)
                  => probe.output = ReferenceMargin(i)
            /\ i = ExampleInput
                  => probe.output = [pct |-> Some(276), rub |-> Some(27600)]

\* ---------------------------------------------------------------- C15
\* the merged configuration of a call of the handler
Cfg == MergeConfig(probe.config)

\* the products of a call of the handler
Loads == Range(probe.ds)

\* the recommendations a call returned for a product
RecsFor(product_id) ==
    {r \in Range(probe.output.recommendations) : r.product_id = product_id}

Stock(d) == OrZero(d.product.total_stock)

Net(d) == NetOf(d.orders, d.returns)

\* C15: with exclude_zero_stock = true the handler returns no recommendation
\* for a product whose stock is 0 or absent, whatever its orders, price and
\* cost are.
C15_ZeroStockIsPassedOver ==
    (Returned("handler") /\ Cfg["exclude_zero_stock"] = JBool(TRUE)) =>
        \A d \in Loads : Stock(d) = 0 => RecsFor(d.product_id) = {}

\* a call that returned a recommendation for its second product and none for
\* its first, which is out of stock, has a price and sold 70 in 7 days
C15_Witness ==
    /\ Returned("handler")
    /\ Cfg["exclude_zero_stock"] = JBool(TRUE)
    /\ \E d \in Loads :
          /\ d.product.total_stock = 0 /\ d.final_price = 100000 /\ Net(d) = 70
          /\ RecsFor(d.product_id) = {}
    /\ probe.output.recommendations # << >>

\* ---------------------------------------------------------------- C16
\* days_remaining = stock / (net_orders_7d / 7) of a product that sold, as a
\* number: it is below a number of days
Under(d, days) == 7 * Stock(d) < days * Net(d)

\* C16: the handler returns no recommendation for a product whose 7-day net
\* orders are zero or whose days_remaining is at or above threshold_days;
\* every recommendation is for a product with days_remaining below
\* threshold_days.
C16_SafeProductsGetNothing ==
    (Returned("handler") /\ IsNumber(Cfg["threshold_days"])) =>
        \A d \in Loads :
            (Net(d) = 0 \/ ~Under(d, Cfg["threshold_days"].v))
                => RecsFor(d.product_id) = {}

\* ---------------------------------------------------------------- C17
\* the bump of a tier after the ceiling, in hundredths of a percent
Bump(tier) ==
    Min(PctOf(Cfg[IF tier = "critical" THEN "critical_increase_pct"
                  ELSE "price_increase_pct"]),
        PctOf(Cfg["max_price_increase_pct"]))

\* a call returned, for a product, a recommendation of a tier at its bump
Raised(d, tier) ==
    \E r \in RecsFor(d.product_id) :
        /\ r.alert_level = tier
        /\ r.recommended_price = RoundDiv(d.final_price * (10000 + Bump(tier)), 10000)

\* the product has a price, sold in the 7 days and is not passed over for
\* zero stock
Rated(d) ==
    /\ d.final_price # None /\ d.final_price > 0
    /\ Net(d) > 0
    /\ ~(Truthy(Cfg["exclude_zero_stock"]) /\ Stock(d) = 0)

\* C17: for a product with a price and positive velocity that is not passed
\* over for zero stock, under every configuration that can be stored:
\* days_remaining < critical_days gives a critical recommendation at
\* critical_increase_pct, critical_days <= days_remaining < threshold_days a
\* warning at price_increase_pct.
C17_TierFollowsDaysRemaining ==
    Returned("handler") =>
        \A d \in Loads :
            Rated(d) =>
                /\ Under(d, Cfg["critical_days"].v) => Raised(d, "critical")
                /\ (~Under(d, Cfg["critical_days"].v)
                       /\ Under(d, Cfg["threshold_days"].v)) => Raised(d, "warning")

\* ---------------------------------------------------------------- C18
\* the product a recommendation is for
LoadOf(r) == CHOOSE d \in Loads : d.product_id = r.product_id

\* recommended_price is current_price x (1 + bump / 100) rounded to kopecks,
\* and at most half a kopeck above current_price x (1 + ceiling / 100)
PriceFollowsBump(r) ==
    /\ r.recommended_price
          = RoundDiv(r.current_price * (10000 + Bump(r.alert_level)), 10000)
    /\ r.recommended_price * 10000
          <= r.current_price * (10000 + PctOf(Cfg["max_price_increase_pct"])) + 5000

\* C18 as stated: for every recommendation the applied bump is
\* min(tier bump, max_price_increase_pct), the recorded percent change is
\* that bump, and recommended_price is current_price x (1 + bump / 100)
\* rounded to 2 decimals, so at most the rounding above the ceiling.
C18_RecordedChangeIsBump ==
    Returned("handler") =>
        \A r \in Range(probe.output.recommendations) :
            /\ r.current_price = LoadOf(r).final_price
            /\ r.price_change_pct * 10 = Bump(r.alert_level)
            /\ PriceFollowsBump(r)

\* C18 amended: as above, the recorded percent change being that bump
\* rounded to 1 decimal.
C18_RecordedChangeIsRoundedBump ==
    Returned("handler") =>
        \A r \in Range(probe.output.recommendations) :
            /\ r.current_price = LoadOf(r).final_price
            /\ r.price_change_pct = RoundDiv(Bump(r.alert_level), 10)
            /\ PriceFollowsBump(r)

\* a call returned a critical recommendation cut from 30 % to the ceiling of
\* 20 % and a warning one at 12.34 %, recorded as 12.3 %
C18_Witness ==
    /\ Returned("handler")
    /\ PctOf(Cfg["max_price_increase_pct"]) = 2000
    /\ \E r \in Range(probe.output.recommendations) :
          /\ r.alert_level = "critical"
          /\ r.current_price = 100000 /\ r.recommended_price = 120000
          /\ r.price_change_pct = 200
    /\ \E r \in Range(probe.output.recommendations) :
          /\ r.alert_level = "warning"
          /\ r.current_price = 100000 /\ r.recommended_price = 112340
          /\ r.price_change_pct = 123

\* ---------------------------------------------------------------- C19
\* a product with a data gap: no latest price, no cost price, or no stock
\* while zero stock is excluded
Gap(d) ==
    \/ d.final_price = None
    \/ d.product.cost_price = None
    \/ Truthy(Cfg["exclude_zero_stock"]) /\ Stock(d) = 0

\* C19: the handler passes over a product with a data gap: it returns no
\* recommendation for it, and it raises and rates the other products as it
\* does on these alone.
C19_GapIsPassedOver ==
    Returned("handler") =>
        \A d \in Loads :
            Gap(d) =>
                /\ RecsFor(d.product_id) = {}
                /\ probe.output
                      = ExecuteLoop(Cfg, SelectSeq(probe.ds, LAMBDA e : e # d))

\* ---------------------------------------------------------------- C20
\* OutOfStockConfig: the bounds (ge, le) of the numeric fields, days in whole
\* days and percentages in hundredths of a percent
OutOfStockConfig ==
    [threshold_days |-> <<1, 90>>, critical_days |-> <<1, 30>>,
     price_increase_pct |-> <<100, 10000>>, critical_increase_pct |-> <<100, 10000>>,
     max_price_increase_pct |-> <<100, 20000>>, min_margin_pct |-> <<0, 10000>>]

\* a configuration OutOfStockConfig accepts: every field absent, or of its
\* type and within its bounds
Conforms(config_json) ==
    /\ \A k \in DOMAIN OutOfStockConfig :
          \/ config_json[k].t = "absent"
          \/ /\ config_json[k].t = "num"
             /\ config_json[k].v >= OutOfStockConfig[k][1]
             /\ config_json[k].v <= OutOfStockConfig[k][2]
    /\ config_json["exclude_zero_stock"].t \in {"absent", "bool"}

\* C20: create_strategy and update_strategy store no configuration that
\* violates the schema of the strategy's type: every stored out_of_stock
\* strategy has a configuration within the OutOfStockConfig bounds.
C20_StoredConfigConforms ==
    \A i \in DOMAIN strategies :
        strategies[i].type = "out_of_stock" => Conforms(strategies[i].config_json)

\* ---------------------------------------------------------------- C12
\* what a price_history row says of its recommendation (the reason text is
\* made of the alert level, the bump and the low-margin clause)
Content(r) ==
    [product_id |-> r.product_id,
     price_before_discount |-> r.price_before_discount,
     price_after_discount |-> r.price_after_discount,
     margin_rub |-> r.margin_rub, margin_pct |-> r.margin_pct,
     alert_level |-> r.alert_level, low_margin |-> r.low_margin]

\* the stored recommendations of the execution of a call that completed;
\* kept FALSE while no store holds the execution
Stored(c, contents) ==
    /\ c.ended = "return"
    /\ c.execution.status = "completed"
    /\ \E s \in Stores :
          /\ c.execution \in s.execs
          /\ contents = {Content(r) : r \in RowsOf(s, c.execution.id)}

\* two calls on record that ran the same strategy on the same configuration
\* and assignments
SameContext(c1, c2) ==
    /\ c1.n # c2.n
    /\ c1.strategy_id = c2.strategy_id
    /\ c1.context.read /\ c1.context = c2.context

ContentSets == SUBSET {Content(r) : r \in UNION {s.rows : s \in Stores}}

LastExecution(strategy_id) ==
    {e \in executions :
        /\ e.strategy_id = strategy_id
        /\ \A o \in executions :
              o.strategy_id = strategy_id => o.executed_at <= e.executed_at}

\* get_strategy_detail: the rows shown as the recommendations of the last
\* execution of a strategy
DetailRecommendations(strategy_id) ==
    {r \in price_history :
        \E e \in LastExecution(strategy_id) :
            /\ e.status = "completed"
            /\ e.recommendations_created > 0
            /\ r.strategy_id = strategy_id
            /\ r.created_at >= e.executed_at}

\* C11: the recommendations shown for the last execution of a strategy are
\* exactly the rows this execution added, also when runs of the strategy by
\* the endpoint and by the batch overlap.
C11_ShownRecommendationsAreOwn ==
    \A strategy_id \in DOMAIN strategies :
        \A e \in LastExecution(strategy_id) :
            DetailRecommendations(strategy_id)
                = {r \in price_history : r.execution = e.id}

\* ---------------------------------------------------------------- C21
\* the rows of all stores
AllRows == UNION {st.rows : st \in Stores}

\* C21: a step of run_strategy or of run_all_active_strategies changes no
\* strategy and no assignment, and every price_history row it adds has
\* is_applied = false.  (Products, price snapshots and sales records are the
\* tables ProductTable, SnapshotTable and OrdersTable, which no step writes.)
C21_Step ==
    RunnerVars' # RunnerVars =>
        /\ strategies' = strategies
        /\ links' = links
        /\ \A r \in AllRows' \ AllRows : ~r.is_applied

C21_RunsOnlyLogRecommendations == [][C21_Step]_vars

\* a batch has returned and a row of one of its runs is committed, not applied
C21_Witness ==
    /\ last_result.kind = "returned"
    /\ \E r \in price_history :
          /\ ~r.is_applied
          /\ \E c \in Range(last_result.calls) : c.n = r.execution

\* ---------------------------------------------------------------- C22
\* C22: in every store, committed or seen by a session, each price_history
\* row comes with the execution of its run in status completed, and that
\* execution comes with all the rows it counted: the rows of a run are stored
\* together with the completed execution or not at all.
C22_RowsComeWithCompletedExecution ==
    \A s \in Stores :
        /\ \A r \in s.rows :
              \E e \in s.execs : e.id = r.execution /\ e.status = "completed"
        /\ \A e \in s.execs :
              Cardinality(RowsOf(s, e.id)) \in {0, e.recommendations_created}

\* a batch whose only run was refused its rows by the database has ended:
\* nothing of the run is committed
C22_Witness ==
    /\ last_result.kind = "raised"
    /\ \E c \in Range(last_result.calls) :
          /\ c.flush_rejected
          /\ \A e \in executions : e.id # c.n
          /\ \A r \in price_history : r.execution # c.n

\* ---------------------------------------------------------------- C23
\* the calls of run_strategy that are over and had added an execution
CreatedCalls == {c \in EndedCalls : c.context.read}

\* C23: every execution run_strategy added in status running is completed or
\* failed in the run's session when run_strategy ends, by return or by raise,
\* an error while the rows are stored included; no committed execution is in
\* status running.
C23_CreatedExecutionEndsTerminal ==
    /\ \A c \in CreatedCalls : c.left \in {"completed", "failed"}
    /\ \A e \in executions : Terminal(e)

\* ---------------------------------------------------------------- C24
\* handler.execute was called and returned its list in this step
HandlerReturned(p) == run[p].pc = "created" /\ run'[p].pc = "executed"

\* the step is the part of run_strategy after the return of handler.execute
AfterHandler(p) == run[p].pc = "executed" /\ run'[p].pc = "idle"

\* C24: between the call of handler.execute and its return no strategy,
\* assignment, execution or price_history row is added or changed, in the
\* committed tables or in a session; the rows of a run, and the status
\* completed with its counts, are written by run_strategy after the handler
\* returned.
C24_Step ==
    /\ \A p \in DOMAIN run :
          HandlerReturned(p) =>
              /\ strategies' = strategies
              /\ links' = links
              /\ executions' = executions
              /\ price_history' = price_history
              /\ sess' = sess
    /\ AllRows' \ AllRows # {} => \E p \in DOMAIN run : AfterHandler(p)
    /\ \A e \in (UNION {st.execs : st \in Stores'}) \ UNION {st.execs : st \in Stores} :
          e.details_json.kind = "summary" => \E p \in DOMAIN run : AfterHandler(p)

C24_HandlerWritesNothing == [][C24_Step]_vars

\* the handler has returned two recommendations and nothing of them is stored
C24_Witness ==
    \E p \in DOMAIN run :
        /\ run[p].pc = "executed"
        /\ Len(run[p].recommendations) = 2
        /\ \A r \in AllRows : r.execution # run[p].execution

\* ---------------------------------------------------------------- C25
\* C25: in one execution no product is evaluated twice and no product gets
\* two price_history rows, also when the strategy has two active links to
\* the same product.
C25_OneRecommendationPerProduct ==
    /\ \A p \in DOMAIN run :
          \A i, j \in DOMAIN run[p].recommendations :
              i # j => run[p].recommendations[i].product_id
                          # run[p].recommendations[j].product_id
    /\ \A s \in Stores :
          \A r1, r2 \in s.rows :
              (r1.execution = r2.execution /\ r1.product_id = r2.product_id) => r1 = r2

\* a run that loaded two active links to product 1 has committed one row
C25_Witness ==
    /\ last_call.ended = "return"
    /\ last_call.context.product_ids = <<1, 1>>
    /\ last_call.execution.products_processed = 2
    /\ Cardinality({r \in price_history : r.execution = last_call.n}) = 1

\* ---------------------------------------------------------------- C26
\* C26: for every product, price and account rates, calculate_promo_margin
\* returns what the margin computation of _enrich_with_prices gives for the
\* same product with that price as its final_price, and is undefined for the
\* same inputs.
C26_SameMarginAsEnrichWithPrices ==
    Returned("margin") =>
        probe.output = _enrich_with_prices(probe.input.product, probe.input.price,
                                           probe.input.account_tax,
                                           probe.input.account_tariff)

\* ---------------------------------------------------------------- C27
\* the active links of a strategy to a product
ActiveLinks(strategy_id, product_id) ==
    {i \in DOMAIN links : /\ links[i].strategy_id = strategy_id
                          /\ links[i].product_id = product_id
                          /\ links[i].is_active}

\* C27: after any sequence of assign_products and remove_products calls a
\* strategy has at most one active link to a product.
C27_OneActiveLinkPerPair ==
    \A strategy_id \in StrategyIdInputs, product_id \in Products :
        Cardinality(ActiveLinks(strategy_id, product_id)) <= 1

\* ---------------------------------------------------------------- C28
RECURSIVE SumCreated(_)
\* recommendations_created added up over a set of executions
SumCreated(E) ==
    IF E = {} THEN 0
    ELSE LET e == CHOOSE x \in E : TRUE
         IN  e.recommendations_created + SumCreated(E \ {e})

\* the executions the last batch committed
BatchCommitted ==
    {e \in executions : \E c \in Range(last_result.calls) : c.n = e.id}

\* C28: in the result a batch returns, strategies_run plus the length of
\* errors is the number of strategies that were active when the batch began,
\* and total_recommendations is the sum of recommendations_created over the
\* executions the batch committed.
C28_BatchResultAddsUp ==
    last_result.kind = "returned" =>
        /\ last_result.results.strategies_run + Len(last_result.results.errors)
              = Len(last_result.strategies)
        /\ last_result.results.total_recommendations = SumCreated(BatchCommitted)

\* a batch over two strategies returned: one run raised, the other stored
\* recommendations
C28_Witness ==
    /\ last_result.kind = "returned"
    /\ last_result.results.strategies_run = 1
    /\ Len(last_result.results.errors) = 1
    /\ last_result.results.total_recommendations > 0
    /\ Cardinality(BatchCommitted) = 2

\* ---------------------------------------------------------------- C29
\* the calls that returned an execution completed with recommendations
RecommendingCalls ==
    {c \in EndedCalls : /\ c.ended = "return"
                        /\ c.execution.status = "completed"
                        /\ c.execution.recommendations_created > 0}

\* C29: the summary of a completed execution with recommendations counts
\* them under warning and critical only: the two counts add up to
\* recommendations_created; products_processed is the number of active link
\* rows the run loaded.
C29_SummaryAddsUp ==
    \A c \in RecommendingCalls :
        LET e == c.execution
        IN  /\ e.details_json.kind = "summary"
            /\ e.details_json.warning + e.details_json.critical
                  = e.recommendations_created
            /\ e.details_json.recommendations = e.recommendations_created
            /\ e.products_processed = Len(c.context.product_ids)
            /\ e.details_json.total_products = Len(c.context.product_ids)

\* a run over two link rows returned one critical recommendation
C29_Witness ==
    \E c \in RecommendingCalls :
        /\ Len(c.context.product_ids) = 2
        /\ c.execution.details_json.critical = 1
        /\ c.execution.details_json.warning = 0

\* ---------------------------------------------------------------- C30
\* C30: in every store an execution has completed_at set exactly when its
\* status is completed or failed, and a failed execution has
\* products_processed = 0 and recommendations_created = 0.
C30_CompletedAtIffTerminal ==
    \A s \in Stores :
        \A e \in s.execs :
            /\ e.completed_at <=> Terminal(e)
            /\ e.status = "failed" =>
                  /\ e.products_processed = 0
                  /\ e.recommendations_created = 0

\* a committed execution failed for want of a handler, with its time, while
\* an execution in status running, without time, is in a session
C30_Witness ==
    /\ \E e \in executions :
          /\ e.status = "failed"
          /\ e.details_json.kind = "error_no_handler"
          /\ e.completed_at
    /\ \E p \in DOMAIN sess :
          \E f \in sess[p].execs : f.status = "running" /\ ~f.completed_at

====
